---- MODULE Spec2Model ----
(***************************************************************************)
(* A model of the streaming voice-activity segmentation of node-vad:       *)
(* class VADStream of src/examples/process.js (lines 123-239), a Node      *)
(* Transform stream that cuts the written PCM bytes into 60 ms frames,     *)
(* has each frame classified and pushes one event per classified frame.    *)
(*                                                                         *)
(* A byte buffer is a sequence of blocks of UnitBytes bytes each; the      *)
(* value of a block stands for its content.  All offsets and lengths are   *)
(* in bytes, as in the source.  The classifier is a deterministic function *)
(* of the frame it is given: the content of the frame's first block is     *)
(* the VAD.Event it returns, and the other blocks of a frame hold REST.    *)
(***************************************************************************)
EXTENDS Integers, Sequences, FiniteSets, TLC

\* ------------------------------------------------------------------ bounds
\* blocks per frame: the granularity of the byte model
UnitsPerFrame == 2
\* total number of blocks written to one stream
MaxUnits == 9
\* largest single write, in blocks
MaxChunkUnits == 3
\* writes waiting in the Writable side of the stream
MaxQueue == 1
\* writes attempted on a failed or destroyed stream
MaxLateWrites == 1

\* --------------------------------------------------------- VAD.Event
ERROR == -1
SILENCE == 0
VOICE == 1
NOISE == 2
Event == {ERROR, SILENCE, VOICE, NOISE}

\* --------------------------------------------------------- VAD.Mode
NORMAL == 0
LOW_BITRATE == 1
AGGRESSIVE == 2
VERY_AGGRESSIVE == 3

\* ------------------------------------------------ JavaScript values
\* a value given as an option: its typeof and, for a number or a numeric
\* string, the fraction num / den it denotes
Num(n) == [type |-> "number", num |-> n, den |-> 1]
Half(n) == [type |-> "number", num |-> n, den |-> 2]
Str(n) == [type |-> "string", num |-> n, den |-> 1]
NullValue == [type |-> "object", num |-> 0, den |-> 1]
\* typeof v
TypeOf(v) == v.type
\* v >= n, v <= n, v < n and v === n for a value v of type number
Ge(v, n) == v.num >= n * v.den
Le(v, n) == v.num <= n * v.den
Lt(v, n) == v.num < n * v.den
StrictEq(v, n) == v.type = "number" /\ v.num = n * v.den

\* no call of the sample converter was made
NoConversion == [bits |-> 0, input |-> <<>>, output |-> <<>>]

\* the options a stream is constructed with in the model.  For these two
\* rates timeMultiplier, chunkLength and every frame time are exact in
\* binary floating point, so integer arithmetic gives the source's values.
AudioFrequencies == {8000, 16000}
DebounceTimes == {0, 60}

VARIABLES
  audioFrequency,  \* this.audioFrequency
  debounceTime,    \* this.debounceTime
  byteCount,       \* this.byteCount
  state,           \* this.state
  startTime,       \* this.startTime
  lastSpeech,      \* this.lastSpeech
  buffer,          \* this.buffer: [isNull, bytes]
  writeQueue,      \* chunks written and not yet handed to _transform
  tpc,             \* where the _transform promise chain stands
  chunk,           \* the chunk argument of _chunkTransform
  start,           \* the start argument of the next _chunkTransform call
  calls,           \* outstanding vad.processAudio calls: <<[audio, time]>>
  events,          \* the objects pushed to the readable side, in order
  written,         \* all bytes handed to _transform so far, in order
  failed,          \* callback(error) was called
  closed,          \* the stream was destroyed by its user
  ended,           \* the input ended and every write was processed
  errorSeen,       \* the classifier returned ERROR
  lateWrites,      \* writes attempted after failure or destruction
  writeKinds,      \* the kinds of writes handed to _transform so far
  callbackCalls,   \* calls of the callback of the latest _transform
  options,         \* the argument of the constructor
  thrown,          \* what the constructor threw, "none" if nothing
  converted        \* a call of the sample converter: [bits, input, output]

vars == <<audioFrequency, debounceTime, byteCount, state, startTime,
          lastSpeech, buffer, writeQueue, tpc, chunk, start, calls, events,
          written, failed, closed, ended, errorSeen, lateWrites,
          writeKinds, callbackCalls, options, thrown, converted>>

\* ------------------------------------------------------- constructor
\* this.timeMultiplier = 1000 / this.audioFrequency / 2, as the fraction
\* TimeMultiplierNum / TimeMultiplierDen
TimeMultiplierNum == 1000
TimeMultiplierDen == audioFrequency * 2
\* the frame duration of this.chunkLength = 60 / this.timeMultiplier
FrameMs == 60
chunkLength == (FrameMs * TimeMultiplierDen) \div TimeMultiplierNum

\* bytes per block
UnitBytes == chunkLength \div UnitsPerFrame

\* ------------------------------------------------------------ Buffer
NullBuffer == [isNull |-> TRUE, bytes |-> <<>>]
BufferOf(b) == [isNull |-> FALSE, bytes |-> b]
\* buffer.length
ByteLength(b) == Len(b) * UnitBytes
\* a _transform that forgets this.buffer: Buffer.concat([chunk])
ConcatWithoutBuffer(a, b) == b
\* Buffer.concat([a, b])
Concat(a, b) == a \o b
\* buf.slice(from, to)
Slice(b, from, to) == SubSeq(b, (from \div UnitBytes) + 1, to \div UnitBytes)
\* a remainder cut one frame too far: chunk.slice(end)
SliceFromEnd(b, from) ==
  SubSeq(b, (from \div UnitBytes) + 1 + UnitsPerFrame, Len(b))
\* buf.slice(from)
SliceFrom(b, from) == SubSeq(b, (from \div UnitBytes) + 1, Len(b))

\* the content of the blocks of a frame after its first
REST == NOISE + 1

\* number of blocks in the chunks of a queue
RECURSIVE QueuedUnits(_)
QueuedUnits(q) == IF q = <<>> THEN 0 ELSE Len(Head(q)) + QueuedUnits(Tail(q))

\* how a write of chunk c after pos blocks lies in the stream of frames
WriteKind(pos, c) ==
  IF c = <<>> THEN "empty"
  ELSE IF (pos + Len(c)) % UnitsPerFrame = 0 THEN "aligned"
  ELSE "split"

\* the chunks a caller may write: of any length up to MaxChunkUnits, cut
\* anywhere out of a stream of frames of at most MaxUnits blocks; pos is the
\* number of blocks written before the chunk
FrameStarts(pos, n) == {i \in 1..n : (pos + i - 1) % UnitsPerFrame = 0}
ChunksAt(pos) ==
  UNION {{[i \in 1..n |-> IF i \in FrameStarts(pos, n) THEN f[i] ELSE REST] :
          f \in [FrameStarts(pos, n) -> Event]} :
         n \in {m \in 0..MaxChunkUnits : pos + m <= MaxUnits}}

\* ------------------------------------------------------ classifier
\* this.vad.processAudio(chunk, this.audioFrequency) resolves to a VAD.Event
Classify(audio) == audio[1]


\* --------------------------------------------------- _processAudio
\* a time taken after this.byteCount += audio.length
TimeAfterCount(bc) ==
  (TimeMultiplierNum * (bc + chunkLength)) \div TimeMultiplierDen
\* const time = this.timeMultiplier * this.byteCount, read before the count
\* is advanced
Time(bc) == (TimeMultiplierNum * bc) \div TimeMultiplierDen

\* a handler without the check of ERROR
IsErrorNever(event) == FALSE
\* if (event === VAD.Event.ERROR) throw new Error('Error in VAD')
IsError(event) == event = ERROR

\* a duration that forgets the start of the segment
DurationFromZero(st, time, sT) == IF st THEN time ELSE 0
\* const duration = this.state ? time - this.startTime : 0
Duration(st, time, sT) == IF st THEN time - sT ELSE 0

\* a start on every VOICE frame, without the test of this.state
StartsOnVoice(event, st) == event = VOICE
\* if (event === VAD.Event.VOICE) { if (!this.state) { start = true ...
StartsSegment(event, st) == event = VOICE /\ ~st

\* an end as soon as the debounce time is reached, not exceeded
EndsAtDebounce(event, st, time, lS, dT) ==
  event # VOICE /\ st /\ time - lS >= dT
\* else if (this.state && time - this.lastSpeech > this.debounceTime)
EndsSegment(event, st, time, lS, dT) ==
  event # VOICE /\ st /\ time - lS > dT

\* this.state after the handler
NewState(event, st, time, lS, dT) ==
  IF StartsSegment(event, st) THEN TRUE
  ELSE IF EndsSegment(event, st, time, lS, dT) THEN FALSE
  ELSE st

\* a this.startTime that is not reset when the segment ends
StartTimeKept(event, st, time, sT, lS, dT) ==
  IF StartsSegment(event, st) THEN time ELSE sT
\* this.startTime after the handler
NewStartTime(event, st, time, sT, lS, dT) ==
  IF StartsSegment(event, st) THEN time
  ELSE IF EndsSegment(event, st, time, lS, dT) THEN 0
  ELSE sT

\* this.lastSpeech after the handler
NewLastSpeech(event, time, lS) == IF event = VOICE THEN time ELSE lS

\* a local startTime that is not set on a start: let {startTime} = this
StartTimeBefore(event, st, time, sT) == sT
\* the local startTime: let {startTime} = this, set to time on a start
LocalStartTime(event, st, time, sT) ==
  IF StartsSegment(event, st) THEN time ELSE sT

\* the object given to this.push; the fields of speech are flattened
FrameEvent(event, time, audio, st, sT, lS, dT) ==
  [time      |-> time,
   audioData |-> audio,
   state     |-> NewState(event, st, time, lS, dT),
   start     |-> StartsSegment(event, st),
   end       |-> EndsSegment(event, st, time, lS, dT),
   startTime |-> LocalStartTime(event, st, time, sT),
   duration  |-> Duration(st, time, sT)]

\* this.push(obj): Readable.push drops the object on a destroyed stream
Push(evs, obj) == IF closed THEN evs ELSE Append(evs, obj)

\* -------------------------------------------------- _chunkTransform
\* if (end < chunk.length)
FrameReady(end, c) == end < ByteLength(c)

\* a recursion that does not wait for the promise of _processAudio
ChainedWithoutAwait(p) == p \in {"next", "await"}
\* a handler whose continuation never runs
ChainedNever(p) == FALSE
\* a recursion that also runs when the promise of _processAudio rejected
ChainedAfterError(p) == p \in {"next", "rejected"}
\* the continuation .then(() => this._chunkTransform(chunk, end)) runs
\* once the promise of _processAudio has resolved
Chained(p) == p = "next"

\* _chunkTransform(c, s), up to the promise it returns: either the
\* synchronous part of _processAudio on the next frame, or the resolved
\* promise of the remaining bytes
ChunkTransform(c, s) ==
  LET end == s + chunkLength IN
  IF FrameReady(end, c)
  THEN /\ calls' = Append(calls, [audio |-> Slice(c, s, end),
                                  time  |-> Time(byteCount)])
       /\ byteCount' = byteCount + ByteLength(Slice(c, s, end))
       /\ start' = end
       /\ tpc' = "await"
  ELSE /\ start' = s
       /\ tpc' = "resolved"
       /\ UNCHANGED <<calls, byteCount>>


Dead == failed \/ closed

\* the fields of a stream after its constructor, and the model's own
Constructed ==
  /\ byteCount = 0
  /\ state = FALSE
  /\ startTime = 0
  /\ lastSpeech = 0
  /\ buffer = BufferOf(<<>>)
  /\ writeQueue = <<>>
  /\ tpc = "idle"
  /\ chunk = <<>>
  /\ start = 0
  /\ calls = <<>>
  /\ events = <<>>
  /\ written = <<>>
  /\ failed = FALSE
  /\ closed = FALSE
  /\ ended = FALSE
  /\ errorSeen = FALSE
  /\ lateWrites = 0
  /\ writeKinds = {}
  /\ callbackCalls = 0

Init ==
  /\ audioFrequency \in AudioFrequencies
  /\ debounceTime \in DebounceTimes
  /\ Constructed
  /\ options = [mode |-> Num(NORMAL), audioFrequency |-> Num(audioFrequency),
                debounceTime |-> Num(debounceTime)]
  /\ thrown = "none"
  /\ converted = NoConversion

\* stream.write(c): the Writable side queues the chunk
Write ==
  /\ ~Dead /\ ~ended
  /\ Len(writeQueue) < MaxQueue
  /\ \E c \in ChunksAt(Len(written) + QueuedUnits(writeQueue)) :
       writeQueue' = Append(writeQueue, c)
  /\ UNCHANGED <<audioFrequency, debounceTime, byteCount, state, startTime,
                 lastSpeech, buffer, tpc, chunk, start, calls, events,
                 written, failed, closed, ended, errorSeen, lateWrites,
                 writeKinds, callbackCalls, options, thrown, converted>>

\* stream.write on a failed or destroyed stream: the stream does not call
\* _transform (which would throw at Buffer.concat([null, chunk]) after a
\* failure), so no field changes
LateWrite ==
  /\ Dead
  /\ lateWrites < MaxLateWrites
  /\ lateWrites' = lateWrites + 1
  /\ UNCHANGED <<audioFrequency, debounceTime, byteCount, state, startTime,
                 lastSpeech, buffer, writeQueue, tpc, chunk, start, calls,
                 events, written, failed, closed, ended, errorSeen,
                 writeKinds, callbackCalls, options, thrown, converted>>

\* _transform(chunk, encoding, callback), up to the first promise: the
\* stream calls it with the next queued chunk once the previous callback
\* was called
Transform ==
  /\ tpc = "idle"
  /\ ~Dead
  /\ writeQueue # <<>>
  /\ chunk' = Concat(buffer.bytes, Head(writeQueue))
  /\ written' = written \o Head(writeQueue)
  /\ writeQueue' = Tail(writeQueue)
  /\ writeKinds' = writeKinds \cup {WriteKind(Len(written), Head(writeQueue))}
  /\ callbackCalls' = 0
  /\ ChunkTransform(chunk', 0)
  /\ UNCHANGED <<audioFrequency, debounceTime, state, startTime, lastSpeech,
                 buffer, events, failed, closed, ended, errorSeen,
                 lateWrites, options, thrown, converted>>

\* the classifier returns: the .then handler of _processAudio
ProcessAudio ==
  \E i \in 1..Len(calls) :
    LET call == calls[i]
        event == Classify(call.audio)
    IN /\ calls' = SubSeq(calls, 1, i - 1) \o SubSeq(calls, i + 1, Len(calls))
       /\ IF IsError(event)
          THEN /\ tpc' = "rejected"
               /\ UNCHANGED <<state, startTime, lastSpeech, events>>
          ELSE /\ state' = NewState(event, state, call.time, lastSpeech,
                                    debounceTime)
               /\ startTime' = NewStartTime(event, state, call.time,
                                            startTime, lastSpeech,
                                            debounceTime)
               /\ lastSpeech' = NewLastSpeech(event, call.time, lastSpeech)
               /\ events' = Push(events,
                                 FrameEvent(event, call.time, call.audio,
                                            state, startTime, lastSpeech,
                                            debounceTime))
               /\ tpc' = "next"
       /\ errorSeen' = (errorSeen \/ event = ERROR)
       /\ UNCHANGED <<audioFrequency, debounceTime, byteCount, buffer,
                      writeQueue, chunk, start, written, failed, closed,
                      ended, lateWrites,
                 writeKinds, callbackCalls, options, thrown, converted>>

\* .then(() => this._chunkTransform(chunk, end))
ChunkNext ==
  /\ Chained(tpc)
  /\ ChunkTransform(chunk, start)
  /\ UNCHANGED <<audioFrequency, debounceTime, state, startTime, lastSpeech,
                 buffer, writeQueue, chunk, events, written, failed, closed,
                 ended, errorSeen, lateWrites,
                 writeKinds, callbackCalls, options, thrown, converted>>

\* .then((remaining) => { this.buffer = remaining; callback(); })
TransformResolved ==
  /\ tpc = "resolved"
  /\ buffer' = BufferOf(SliceFrom(chunk, start))
  /\ tpc' = "idle"
  /\ callbackCalls' = callbackCalls + 1
  /\ chunk' = <<>>
  /\ start' = 0
  /\ UNCHANGED <<audioFrequency, debounceTime, byteCount, state, startTime,
                 lastSpeech, writeQueue, calls, events, written, failed,
                 closed, ended, errorSeen, lateWrites,
                 writeKinds, options, thrown, converted>>

\* .catch((error) => { this.buffer = null; callback(error); }): the stream
\* is errored and its queued writes are dropped
TransformRejected ==
  /\ tpc = "rejected"
  /\ buffer' = NullBuffer
  /\ failed' = TRUE
  /\ writeQueue' = <<>>
  /\ tpc' = "idle"
  /\ callbackCalls' = callbackCalls + 1
  /\ chunk' = <<>>
  /\ start' = 0
  /\ UNCHANGED <<audioFrequency, debounceTime, byteCount, state, startTime,
                 lastSpeech, calls, events, written, closed, ended,
                 errorSeen, lateWrites,
                 writeKinds, options, thrown, converted>>

\* stream.destroy() by the user, at any point of the promise chain; the
\* class defines no _destroy, so the chain of _transform is not told
Close ==
  /\ ~Dead /\ ~ended
  /\ closed' = TRUE
  /\ writeQueue' = <<>>
  /\ UNCHANGED <<audioFrequency, debounceTime, byteCount, state, startTime,
                 lastSpeech, buffer, tpc, chunk, start, calls, events,
                 written, failed, ended, errorSeen, lateWrites,
                 writeKinds, callbackCalls, options, thrown, converted>>

\* stream.end(): the input ends once every write was processed; the class
\* defines no _flush, so what is left in this.buffer is not processed
End ==
  /\ ~Dead /\ ~ended
  /\ tpc = "idle"
  /\ writeQueue = <<>>
  /\ ended' = TRUE
  /\ UNCHANGED <<audioFrequency, debounceTime, byteCount, state, startTime,
                 lastSpeech, buffer, writeQueue, tpc, chunk, start, calls,
                 events, written, failed, closed, errorSeen, lateWrites,
                 writeKinds, callbackCalls, options, thrown, converted>>

Next ==
  \/ Write
  \/ LateWrite
  \/ Transform
  \/ ProcessAudio
  \/ ChunkNext
  \/ TransformResolved
  \/ TransformRejected
  \/ Close
  \/ End

Spec == Init /\ [][Next]_vars

\* ------------------------------------------------------------ claims
\* every write handed to _transform has completed
WritesCompleted == tpc = "idle"

\* the events of one write of chunk c from offset s on, with the stream
\* fields bc, st, sT, lS at that point
RECURSIVE EventsFrom(_, _, _, _, _, _)
EventsFrom(c, s, bc, st, sT, lS) ==
  LET end == s + chunkLength
      audio == Slice(c, s, end)
      time == Time(bc)
      event == Classify(audio)
  IN IF FrameReady(end, c)
     THEN <<FrameEvent(event, time, audio, st, sT, lS, debounceTime)>> \o
          EventsFrom(c, end, bc + ByteLength(audio),
                     NewState(event, st, time, lS, debounceTime),
                     NewStartTime(event, st, time, sT, lS, debounceTime),
                     NewLastSpeech(event, time, lS))
     ELSE <<>>

\* the events of a new stream given all of input in one write
SingleWriteEvents(input) == EventsFrom(input, 0, 0, FALSE, 0, 0)

\* C1: chunk-boundary independence.  Once all writes have completed on a
\* stream that saw no ERROR and was not destroyed, the events emitted are
\* those of the partition of the same input into one single write, so any
\* two partitions of an input give the same ordered events, field by field.
C1_ChunkBoundaryIndependence ==
  (WritesCompleted /\ ~errorSeen /\ ~closed)
    => events = SingleWriteEvents(written)

\* the input came in empty, frame-aligned and frame-splitting writes and
\* gave three events
C1_Witness ==
  /\ WritesCompleted /\ ~errorSeen /\ ~closed
  /\ writeKinds = {"empty", "aligned", "split"}
  /\ Len(events) >= 3

\* C2: when the input ends without ERROR after N bytes, exactly
\* floor(N / chunkLength) events have been emitted.
C2_FloorOfFramesEmitted ==
  (ended /\ ~errorSeen)
    => Len(events) = ByteLength(written) \div chunkLength

\* the audioData of a sequence of events, concatenated
RECURSIVE AudioOf(_)
AudioOf(evs) ==
  IF evs = <<>> THEN <<>> ELSE Head(evs).audioData \o AudioOf(Tail(evs))

\* C3: byte conservation.  After any completed writes without ERROR on a
\* stream that was not destroyed, the audioData of the events in order
\* followed by this.buffer is the written input, every event holds one
\* frame, and there is one event per frame counted in byteCount.
C3_ByteConservation ==
  (WritesCompleted /\ ~errorSeen /\ ~closed)
    => /\ ~buffer.isNull
       /\ AudioOf(events) \o buffer.bytes = written
       /\ \A i \in 1..Len(events) :
            ByteLength(events[i].audioData) = chunkLength
       /\ Len(events) * chunkLength = byteCount

\* two frames were emitted over frame-splitting writes and bytes are left
C3_Witness ==
  /\ WritesCompleted /\ ~errorSeen /\ ~closed
  /\ "split" \in writeKinds
  /\ Len(events) >= 2
  /\ buffer.bytes # <<>>

\* C4: fatal error termination.  Once the classifier has returned ERROR for
\* a frame, no event is emitted: not in the step that handles the ERROR and
\* not in any later step, whatever is written afterwards.
C4_NoEventAfterError == [][errorSeen' => events' = events]_vars

\* the stream failed after emitting events, with more than one frame
\* buffered behind the failing frame, and a write followed
C4_Witness ==
  /\ errorSeen /\ failed /\ ~closed
  /\ events # <<>>
  /\ ByteLength(written) - byteCount > chunkLength
  /\ lateWrites > 0

\* the last event before events[i] with start or end set, 0 if none
LastMark(i) ==
  LET marks == {j \in 1..(i - 1) : events[j].start \/ events[j].end}
  IN IF marks = {} THEN 0 ELSE CHOOSE j \in marks : \A k \in marks : k <= j

\* C5: single start and end per segment.  start is set only on an event
\* with state set whose predecessor, if any, has state unset; end only on an
\* event with state unset whose predecessor has state set; never both; and
\* starts and ends alternate, beginning with a start, so that state is set
\* exactly on the events from a start up to the matching end, excluded.
C5_SingleStartEnd ==
  \A i \in 1..Len(events) :
    LET e == events[i]
        m == LastMark(i)
    IN /\ e.start => (e.state /\ (i = 1 \/ ~events[i - 1].state))
       /\ e.end => (~e.state /\ i > 1 /\ events[i - 1].state)
       /\ ~(e.start /\ e.end)
       /\ e.start => (m = 0 \/ events[m].end)
       /\ e.end => (m # 0 /\ events[m].start)
       /\ e.state <=> (e.start \/ (~e.end /\ m # 0 /\ events[m].start))

\* a segment started, ended and another one started
C5_Witness ==
  \E i, j, k \in 1..Len(events) :
    i < j /\ j < k /\ events[i].start /\ events[j].end /\ events[k].start

\* C6: every emitted event with state unset has duration 0, the event with
\* end set included.
C6_NoDurationWhenNotSpeaking ==
  \A i \in 1..Len(events) : ~events[i].state => events[i].duration = 0

\* C7: duration while speaking.  Every event with state set has duration
\* time - startTime, which is 0 on the event with start set and does not
\* decrease from one event of a segment to the next.
C7_DurationWhileSpeaking ==
  \A i \in 1..Len(events) :
    LET e == events[i]
    IN e.state =>
         /\ e.duration = e.time - e.startTime
         /\ e.start => e.duration = 0
         /\ (i > 1 /\ events[i - 1].state /\ ~e.start)
              => /\ e.startTime = events[i - 1].startTime
                 /\ e.duration >= events[i - 1].duration

\* a segment that started after time 0 went on for two more events
C7_Witness ==
  \E i \in 3..Len(events) :
    /\ events[i - 2].start /\ events[i - 2].time > 0
    /\ events[i - 1].state /\ events[i].state
    /\ events[i].duration > events[i - 1].duration

\* ------------------------------------------- the reference scenario
\* what the classifier returns for frame k: SILENCE for frames 1-5, VOICE
\* for frames 6-8, SILENCE from frame 9 on
ScenarioClass(k) == IF k \in 6..8 THEN VOICE ELSE SILENCE

\* the input: frames 1-28 and the first block of a frame 29, without which
\* _chunkTransform leaves frame 28 in this.buffer
ScenarioInput ==
  [p \in 1..(28 * UnitsPerFrame + 1) |->
     IF (p - 1) % UnitsPerFrame = 0
     THEN ScenarioClass(((p - 1) \div UnitsPerFrame) + 1)
     ELSE REST]

InitScenario ==
  /\ audioFrequency = 16000
  /\ debounceTime = 1000
  /\ Constructed
  /\ options = [mode |-> Num(NORMAL), audioFrequency |-> Num(audioFrequency),
                debounceTime |-> Num(debounceTime)]
  /\ thrown = "none"
  /\ converted = NoConversion

\* stream.write of the next blocks of the scenario's input
WriteScenario ==
  /\ Len(writeQueue) < MaxQueue
  /\ \E n \in 1..MaxChunkUnits :
       LET pos == Len(written) + QueuedUnits(writeQueue)
       IN /\ pos + n <= Len(ScenarioInput)
          /\ writeQueue' =
               Append(writeQueue, SubSeq(ScenarioInput, pos + 1, pos + n))
  /\ UNCHANGED <<audioFrequency, debounceTime, byteCount, state, startTime,
                 lastSpeech, buffer, tpc, chunk, start, calls, events,
                 written, failed, closed, ended, errorSeen, lateWrites,
                 writeKinds, callbackCalls, options, thrown, converted>>

NextScenario ==
  \/ WriteScenario
  \/ Transform
  \/ ProcessAudio
  \/ ChunkNext
  \/ TransformResolved

SpecScenario == InitScenario /\ [][NextScenario]_vars

\* C8: the reference scenario.  Event 6 has start and state set, startTime
\* 300 and duration 0; events 7-8 have state set, start unset and duration
\* 60 more each; events 9-24 have state set, start and end unset; event 25
\* has end set, state unset and duration 0; events 26-28 have state, start
\* and end unset.
C8_ReferenceScenario ==
  \A i \in 1..Len(events) :
    LET e == events[i]
    IN /\ i = 6 => (e.start /\ e.state /\ e.startTime = 300
                      /\ e.duration = 0)
       /\ i \in 7..8 => (e.state /\ ~e.start
                          /\ e.duration = events[i - 1].duration + 60)
       /\ i \in 9..24 => (e.state /\ ~e.start /\ ~e.end)
       /\ i = 25 => (e.end /\ ~e.state /\ e.duration = 0)
       /\ i \in 26..28 => (~e.state /\ ~e.start /\ ~e.end)

\* ------------------------------------- double-precision arithmetic
\* JavaScript numbers are IEEE-754 doubles.  A positive double is [m, e]: m
\* its 53 significant bits, most significant first and the first one 1, and
\* e the binary exponent of that first bit.
SignificandBits == 53
\* significands are divided as LimbCount digits of LimbBits bits each, kept
\* as sequences <<digit 1, ..., digit LimbCount>>
LimbBits == 14
LimbCount == 4
LimbBase == 2 ^ LimbBits

\* the bits of the natural number n, without leading zeros
RECURSIVE BitsOfNat(_)
BitsOfNat(n) == IF n = 0 THEN <<>> ELSE BitsOfNat(n \div 2) \o <<n % 2>>

\* the natural number of a short sequence of bits
RECURSIVE NatOfBits(_)
NatOfBits(b) ==
  IF b = <<>> THEN 0 ELSE 2 * NatOfBits(SubSeq(b, 1, Len(b) - 1)) + b[Len(b)]

\* n zeros
Zeros(n) == [i \in 1..n |-> 0]

\* the digits of a sequence of at most LimbCount * LimbBits bits
Limbs(b) ==
  LET p == Zeros(LimbCount * LimbBits - Len(b)) \o b
      digit(i) == NatOfBits(SubSeq(p, LimbBits * (i - 1) + 1, LimbBits * i))
  IN <<digit(1), digit(2), digit(3), digit(4)>>

\* a >= b, digit by digit from the most significant one
GeLimbs(a, b) ==
  \A i \in 1..LimbCount :
    a[i] < b[i] => \E j \in 1..(i - 1) : a[j] > b[j]

\* a - b, for a >= b: a digit borrows when the digits after it are less
SubLimbs(a, b) ==
  LET borrow(i) ==
        IF \E j \in (i + 1)..LimbCount :
             a[j] < b[j] /\ \A k \in (i + 1)..(j - 1) : a[k] = b[k]
        THEN 1 ELSE 0
      digit(i) == (a[i] - b[i] - borrow(i) + LimbBase) % LimbBase
  IN <<digit(1), digit(2), digit(3), digit(4)>>

\* 2 * a, for a below half the range
DoubleLimbs(a) ==
  LET digit(i) ==
        (2 * a[i] + (IF i < LimbCount THEN a[i + 1] \div (LimbBase \div 2)
                     ELSE 0)) % LimbBase
  IN <<digit(1), digit(2), digit(3), digit(4)>>

\* a + b + carry modulo 2^Len(a), for a and b of the same length
RECURSIVE AddBits(_, _, _)
AddBits(a, b, carry) ==
  IF a = <<>> THEN <<>>
  ELSE LET n == Len(a)
           d == a[n] + b[n] + carry
       IN IF d > 1
          THEN AddBits(SubSeq(a, 1, n - 1), SubSeq(b, 1, n - 1), 1)
                 \o <<d % 2>>
          ELSE AddBits(SubSeq(a, 1, n - 1), SubSeq(b, 1, n - 1), 0)
                 \o <<d>>

\* the double of the natural number n, 0 < n < 2^31
DoubleOfNat(n) ==
  LET b == BitsOfNat(n)
  IN [m |-> b \o Zeros(SignificandBits - Len(b)), e |-> Len(b) - 1]

\* the double is a natural number below 2^31
IsNat(d) ==
  /\ d.e >= 0 /\ d.e <= 30
  /\ \A i \in (d.e + 2)..SignificandBits : d.m[i] = 0
\* that natural number
NatOfDouble(d) == NatOfBits(SubSeq(d.m, 1, d.e + 1))

\* the significand q (of exponent e) rounded to nearest, ties to even: up
\* says that what was cut off is above one half, tie that it is one half
RoundDouble(q, e, up, tie) ==
  IF up \/ (tie /\ q[SignificandBits] = 1)
  THEN LET r == AddBits(<<0>> \o q, Zeros(SignificandBits) \o <<1>>, 0)
       IN IF r[1] = 1
          THEN [m |-> SubSeq(r, 1, SignificandBits), e |-> e + 1]
          ELSE [m |-> Tail(r), e |-> e]
  ELSE [m |-> q, e |-> e]

\* the bits of the quotient r / b after those in q, with twice the remainder
RECURSIVE DivBits(_, _, _)
DivBits(r, b, q) ==
  IF Len(q) = SignificandBits THEN [q |-> q, r |-> r]
  ELSE IF GeLimbs(r, b)
    THEN DivBits(DoubleLimbs(SubLimbs(r, b)), b, q \o <<1>>)
    ELSE DivBits(DoubleLimbs(r), b, q \o <<0>>)

\* x / y in JavaScript, for positive doubles
Divide(x, y) ==
  LET a == Limbs(x.m)
      b == Limbs(y.m)
      ge == GeLimbs(a, b)
      d == DivBits(IF ge THEN a ELSE DoubleLimbs(a), b, <<>>)
  IN RoundDouble(d.q, IF ge THEN x.e - y.e ELSE x.e - y.e - 1,
                 d.r # b /\ GeLimbs(d.r, b), d.r = b)

\* this.timeMultiplier = 1000 / this.audioFrequency / 2, without its half
DoubleTimeMultiplierWhole(f) ==
  Divide(DoubleOfNat(TimeMultiplierNum), DoubleOfNat(f))
\* this.timeMultiplier = 1000 / this.audioFrequency / 2
DoubleTimeMultiplier(f) ==
  Divide(Divide(DoubleOfNat(TimeMultiplierNum), DoubleOfNat(f)),
         DoubleOfNat(2))
\* this.chunkLength = 60 / this.timeMultiplier
DoubleChunkLength(f) == Divide(DoubleOfNat(FrameMs), DoubleTimeMultiplier(f))

\* ------------------------------------------------- the constructor
\* VAD.constructor: typeof mode !== 'number' ||
\* !(mode >= VAD.Mode.NORMAL && mode <= VAD.Mode.VERY_AGGRESSIVE); the
\* native allocation and initialisation before it succeed
InvalidMode(mode) ==
  TypeOf(mode) # "number" \/ ~(Ge(mode, NORMAL) /\ Le(mode, VERY_AGGRESSIVE))

\* the message of the error that new VADStream(o) throws, "none" if none:
\* new VAD(mode) first, then the checks of audioFrequency and debounceTime
ConstructorThrows(o) ==
  IF InvalidMode(o.mode) THEN "Invalid mode"
  ELSE IF TypeOf(o.audioFrequency) # "number"
    THEN "audioFrequency must be a number"
  ELSE IF ~(\/ StrictEq(o.audioFrequency, 8000)
            \/ StrictEq(o.audioFrequency, 16000)
            \/ StrictEq(o.audioFrequency, 32000)
            \/ StrictEq(o.audioFrequency, 48000))
    THEN "audioFrequency must be 8000, 16000, 32000 or 48000"
  ELSE IF TypeOf(o.debounceTime) # "number"
    THEN "debounceTime must be a number"
  ELSE IF Lt(o.debounceTime, 0) THEN "debounceTime must be greater than 0"
  ELSE "none"

\* the options given to the constructor in the model
ModeOptions ==
  {Num(NORMAL - 1), Num(NORMAL), Num(LOW_BITRATE), Num(AGGRESSIVE),
   Num(VERY_AGGRESSIVE), Num(VERY_AGGRESSIVE + 1), Half(3), Str(LOW_BITRATE),
   NullValue}
FrequencyOptions ==
  {Num(8000), Num(16000), Num(32000), Num(48000), Num(44100), Num(0),
   Str(16000)}
DebounceOptions == {Num(0 - 1), Num(0), Num(60), Num(1000), Str(1000)}

\* the value of every field while no stream exists
Absent == "absent"

InitConstruct ==
  /\ options \in [mode : ModeOptions, audioFrequency : FrequencyOptions,
                   debounceTime : DebounceOptions]
  /\ thrown = "unconstructed"
  /\ converted = NoConversion
  /\ audioFrequency = Absent
  /\ debounceTime = Absent
  /\ byteCount = Absent
  /\ state = Absent
  /\ startTime = Absent
  /\ lastSpeech = Absent
  /\ buffer = Absent
  /\ writeQueue = Absent
  /\ tpc = Absent
  /\ chunk = Absent
  /\ start = Absent
  /\ calls = Absent
  /\ events = Absent
  /\ written = Absent
  /\ failed = Absent
  /\ closed = Absent
  /\ ended = Absent
  /\ errorSeen = Absent
  /\ lateWrites = Absent
  /\ writeKinds = Absent
  /\ callbackCalls = Absent

\* new VADStream(options)
New ==
  /\ thrown = "unconstructed"
  /\ thrown' = ConstructorThrows(options)
  /\ IF thrown' = "none"
     THEN /\ audioFrequency' = options.audioFrequency.num
          /\ debounceTime' = options.debounceTime.num
          /\ byteCount' = 0
          /\ state' = FALSE
          /\ startTime' = 0
          /\ lastSpeech' = 0
          /\ buffer' = BufferOf(<<>>)
          /\ writeQueue' = <<>>
          /\ tpc' = "idle"
          /\ chunk' = <<>>
          /\ start' = 0
          /\ calls' = <<>>
          /\ events' = <<>>
          /\ written' = <<>>
          /\ failed' = FALSE
          /\ closed' = FALSE
          /\ ended' = FALSE
          /\ errorSeen' = FALSE
          /\ lateWrites' = 0
          /\ writeKinds' = {}
          /\ callbackCalls' = 0
     ELSE UNCHANGED <<audioFrequency, debounceTime, byteCount, state,
                      startTime, lastSpeech, buffer, writeQueue, tpc, chunk,
                      start, calls, events, written, failed, closed, ended,
                      errorSeen, lateWrites, writeKinds, callbackCalls>>
  /\ UNCHANGED <<options, converted>>

NextConstruct == New

SpecConstruct == InitConstruct /\ [][NextConstruct]_vars

\* the configurations that the claim calls valid
ValidOptions(o) ==
  /\ o.mode \in {Num(NORMAL), Num(LOW_BITRATE), Num(AGGRESSIVE),
                  Num(VERY_AGGRESSIVE)}
  /\ o.audioFrequency \in {Num(8000), Num(16000), Num(32000), Num(48000)}
  /\ TypeOf(o.debounceTime) = "number" /\ Ge(o.debounceTime, 0)

\* C11: configuration validation.  The constructor throws, and no stream
\* exists, for a mode outside the four modes, an audioFrequency outside the
\* four rates, a negative debounceTime or a value of the wrong type; for
\* every other configuration, debounceTime 0 included, it gives a stream
\* with state false, startTime 0, lastSpeech 0, byteCount 0 and an empty
\* buffer.
C11_ConfigurationValidation ==
  thrown # "unconstructed" =>
    IF ValidOptions(options)
    THEN /\ thrown = "none"
         /\ state = FALSE /\ startTime = 0 /\ lastSpeech = 0
         /\ byteCount = 0 /\ buffer = BufferOf(<<>>)
    ELSE /\ thrown # "none"
         /\ byteCount = Absent /\ buffer = Absent

\* 60 ms of 16-bit samples at f samples per second, in bytes
FrameLengthBytes(f) ==
  CASE f = 8000 -> 960
    [] f = 16000 -> 1920
    [] f = 32000 -> 3840
    [] f = 48000 -> 5760

\* C12: exact frame sizing.  For each of the four rates the chunkLength
\* that the constructor computes in double precision, 60 / (1000 / rate / 2),
\* is a whole number: 960, 1920, 3840 and 5760 bytes, which is 60 ms of
\* 16-bit samples, and it is even.
C12_ExactFrameSizing ==
  thrown = "none" =>
    LET d == DoubleChunkLength(audioFrequency)
    IN /\ IsNat(d)
       /\ NatOfDouble(d) = FrameLengthBytes(audioFrequency)
       /\ NatOfDouble(d) = chunkLength
       /\ NatOfDouble(d) * 1000 = FrameMs * 2 * audioFrequency
       /\ NatOfDouble(d) % 2 = 0
\* a stream was constructed at 48000 Hz, where timeMultiplier is rounded
C12_Witness == thrown = "none" /\ audioFrequency = 48000

\* ------------------------------------------- the sample converter
\* Buffers are sequences of bytes, offsets count from 0 as in the source.
\* A float is [s, e, m]: the sign, exponent and fraction fields of its
\* 32 bits.
MaxSamples == 3

\* Buffer.alloc(n): n zero bytes
alloc(n) == Zeros(n)

\* the two bytes of the 16-bit sample v, little-endian
Int16Bytes(v) ==
  LET u == (v + 65536) % 65536
  IN <<u % 256, u \div 256>>

\* buffer.readInt16LE(offset)
readInt16LE(b, offset) ==
  LET u == b[offset + 1] + 256 * b[offset + 2]
  IN IF u >= 32768 THEN u - 65536 ELSE u

\* intValue / 32_768 as the float that writeFloatLE stores; the quotient of
\* a 16-bit integer by 2^15 has at most 16 significant bits, so it is exact
Float32OfRatio(intValue) ==
  LET a == IF intValue < 0 THEN 0 - intValue ELSE intValue
      k == CHOOSE k \in 0..15 : 2 ^ k <= a /\ a < 2 ^ (k + 1)
  IN IF intValue = 0 THEN [s |-> 0, e |-> 0, m |-> 0]
     ELSE [s |-> IF intValue < 0 THEN 1 ELSE 0,
           e |-> 127 + k - 15,
           m |-> (a - 2 ^ k) * 2 ^ (23 - k)]

\* the four bytes of the float f, little-endian
FloatBytes(f) ==
  <<f.m % 256, (f.m \div 256) % 256, (f.e % 2) * 128 + f.m \div 65536,
    f.s * 128 + f.e \div 2>>

\* buffer.readFloatLE(offset)
readFloatLE(b, offset) ==
  [s |-> b[offset + 4] \div 128,
   e |-> (b[offset + 4] % 128) * 2 + b[offset + 3] \div 128,
   m |-> (b[offset + 3] % 128) * 65536 + b[offset + 2] * 256 + b[offset + 1]]

\* floatData.writeFloatLE(value, offset)
writeFloatLE(b, value, offset) ==
  SubSeq(b, 1, offset) \o FloatBytes(value) \o SubSeq(b, offset + 5, Len(b))

\* the loop of from16toFloatBuffer from index i on
RECURSIVE From16Loop(_, _, _)
From16Loop(b, floatData, i) ==
  IF i < Len(b)
  THEN From16Loop(b, writeFloatLE(floatData,
                                  Float32OfRatio(readInt16LE(b, i)), i * 2),
                  i + 2)
  ELSE floatData

\* VAD.from16toFloatBuffer(buffer)
from16toFloatBuffer(b) == From16Loop(b, alloc(Len(b) * 2), 0)

\* the loop of from32toFloatBuffer from index i on
RECURSIVE From32Loop(_, _, _)
From32Loop(b, floatData, i) ==
  IF i < Len(b)
  THEN From32Loop(b, writeFloatLE(floatData, readFloatLE(b, i), i * 4),
                  i + 4)
  ELSE floatData

\* VAD.from32toFloatBuffer(buffer)
from32toFloatBuffer(b) == From32Loop(b, alloc(Len(b) * 4), 0)

\* the concatenation of the sequences in s
RECURSIVE Flatten(_)
Flatten(s) == IF s = <<>> THEN <<>> ELSE Head(s) \o Flatten(Tail(s))

\* the buffer of the 16-bit samples in s, and of the floats in s
Int16Buffer(s) == Flatten([i \in 1..Len(s) |-> Int16Bytes(s[i])])
FloatBuffer(s) == Flatten([i \in 1..Len(s) |-> FloatBytes(s[i])])

\* the inputs of the model: up to MaxSamples samples, extreme values and
\* both signs among them
Int16Samples == {0 - 32768, 0 - 12345, 0 - 1, 0, 1, 32767}
FloatSamples == {Float32OfRatio(v) : v \in {0 - 32768, 0, 1, 16384}}
SeqsUpTo(S, n) == UNION {[1..k -> S] : k \in 0..n}

\* a VAD whose converter has not been called; the converter keeps no state,
\* so one call is followed
InitConvert ==
  /\ audioFrequency = 16000
  /\ debounceTime = 0
  /\ Init

\* processAudio(buffer, rate, 16): the buffer is converted by
\* from16toFloatBuffer and handed to the classifier
Convert16 ==
  /\ converted = NoConversion
  /\ \E smp \in SeqsUpTo(Int16Samples, MaxSamples) :
       converted' = [bits |-> 16, input |-> Int16Buffer(smp),
                     output |-> from16toFloatBuffer(Int16Buffer(smp))]
  /\ UNCHANGED <<audioFrequency, debounceTime, byteCount, state, startTime,
                 lastSpeech, buffer, writeQueue, tpc, chunk, start, calls,
                 events, written, failed, closed, ended, errorSeen,
                 lateWrites, writeKinds, callbackCalls, options, thrown>>

\* processAudio(buffer, rate, 32): the buffer is converted by
\* from32toFloatBuffer and handed to the classifier
Convert32 ==
  /\ converted = NoConversion
  /\ \E smp \in SeqsUpTo(FloatSamples, MaxSamples) :
       converted' = [bits |-> 32, input |-> FloatBuffer(smp),
                     output |-> from32toFloatBuffer(FloatBuffer(smp))]
  /\ UNCHANGED <<audioFrequency, debounceTime, byteCount, state, startTime,
                 lastSpeech, buffer, writeQueue, tpc, chunk, start, calls,
                 events, written, failed, closed, ended, errorSeen,
                 lateWrites, writeKinds, callbackCalls, options, thrown>>

NextConvert == Convert16 \/ Convert32
SpecConvert == InitConvert /\ [][NextConvert]_vars

\* bitDepth 16: N samples give exactly N floats, the i-th one the i-th
\* sample divided by 32768
From16ElementCount ==
  converted.bits = 16 =>
    \E smp \in SeqsUpTo(Int16Samples, MaxSamples) :
      /\ converted.input = Int16Buffer(smp)
      /\ converted.output =
           FloatBuffer([i \in 1..Len(smp) |-> Float32OfRatio(smp[i])])
\* bitDepth 32: N floats give exactly N floats, the i-th one the i-th input
From32ElementCount ==
  converted.bits = 32 =>
    \E smp \in SeqsUpTo(FloatSamples, MaxSamples) :
      /\ converted.input = FloatBuffer(smp)
      /\ converted.output = FloatBuffer(smp)

\* C13: sample converter element count.  For bitDepth 16, N 16-bit samples
\* give a float buffer of exactly N floats, the i-th derived from the i-th
\* sample; for bitDepth 32, N floats give a float buffer of exactly N
\* floats, the i-th equal to the i-th input.
C13_ConverterElementCount == From16ElementCount /\ From32ElementCount

\* C14: remainder bound.  After every write that completes successfully
\* the remainder kept in this.buffer is strictly shorter than one frame:
\* no complete frame is left unprocessed.
C14_RemainderBound ==
  (WritesCompleted /\ ~failed) => ByteLength(buffer.bytes) < chunkLength

\* the classification of the frame of the i-th event
ClassOf(i) == events[i].audioData[1]
\* speaking before the frame of the i-th event
SpeakingBefore(i) == IF i = 1 THEN FALSE ELSE events[i - 1].state
\* the time of the most recent VOICE frame before the i-th event
LastVoiceTime(i) ==
  LET V == {j \in 1..(i - 1) : ClassOf(j) = VOICE}
  IN IF V = {} THEN 0
     ELSE events[CHOOSE j \in V : \A k \in V : k <= j].time

\* the events of C15: while speaking, SILENCE and NOISE end the segment
\* exactly when the time since the last VOICE frame exceeds debounceTime,
\* and VOICE neither starts nor ends
DebouncedEvents ==
  \A i \in 1..Len(events) :
    SpeakingBefore(i) =>
      LET e == events[i]
      IN IF ClassOf(i) = VOICE
         THEN ~e.start /\ ~e.end /\ e.state
         ELSE /\ e.end <=> (e.time - LastVoiceTime(i) > debounceTime)
              /\ e.state <=> ~e.end

\* the fields of C15: an event with end leaves state false and startTime 0
DebouncedFields ==
  (Len(events') = Len(events) + 1 /\ events'[Len(events')].end)
    => (state' = FALSE /\ startTime' = 0)

\* C15: debounced segment end.  While speaking, a SILENCE or NOISE frame at
\* time t ends the segment (end true, state false, startTime reset to 0) if
\* and only if t minus the time of the most recent VOICE frame exceeds
\* debounceTime; otherwise state stays true and end is false; NOISE is
\* treated like SILENCE; a VOICE frame while speaking sets neither start
\* nor end and restarts the debounce window.
C15_DebouncedSegmentEnd == []DebouncedEvents /\ [][DebouncedFields]_vars
\* with debounceTime 60, after VOICE a NOISE frame within the debounce time
\* left the segment open and the next NOISE frame ended it
C15_Witness ==
  /\ debounceTime = 60 /\ Len(events) >= 3
  /\ ClassOf(1) = VOICE /\ ClassOf(2) = NOISE /\ ClassOf(3) = NOISE
  /\ events[2].state /\ ~events[2].end /\ events[3].end
  /\ state = FALSE /\ startTime = 0

\* C16: frame time.  The k-th event (k = 0, 1, ...) has time k times 60 ms,
\* which is timeMultiplier times the number of input bytes before its frame;
\* the frame is the k-th frame of the input whatever the writes were, and
\* consecutive events are exactly 60 ms apart.
C16_FrameTime ==
  \A i \in 1..Len(events) :
    LET preceding == (i - 1) * chunkLength
    IN /\ events[i].time = (i - 1) * FrameMs
       /\ events[i].time * TimeMultiplierDen = TimeMultiplierNum * preceding
       /\ events[i].audioData =
            Slice(written, preceding, preceding + chunkLength)
       /\ i > 1 => events[i].time - events[i - 1].time = FrameMs
\* four events came out of an input that was split inside frames
C16_Witness ==
  /\ Len(events) = 4 /\ "split" \in writeKinds
  /\ events[4].time = 3 * FrameMs

\* the states of C17: once the failing write has completed, the stream has
\* failed, this.buffer is discarded and the callback of that write was
\* called once; no callback is called twice
FailedWrite ==
  /\ callbackCalls <= 1
  /\ (errorSeen /\ WritesCompleted)
       => (failed /\ buffer = NullBuffer /\ callbackCalls = 1)
  /\ failed => errorSeen

\* the steps of C17: from the handling of the ERROR frame on, no frame is
\* passed to the classifier, state, startTime and lastSpeech stay as they
\* were, and the events emitted stay the same
FailingStep ==
  errorSeen' =>
    /\ Len(calls') <= Len(calls)
    /\ byteCount' = byteCount
    /\ UNCHANGED <<state, startTime, lastSpeech>>
    /\ events' = events

\* C17: the failing write.  When a frame of a write is classified ERROR, the
\* frames after it in that write are never passed to the classifier, the
\* remainder is discarded, the error goes exactly once to the callback of
\* that write, state, startTime and lastSpeech are left as before the
\* failing frame, and the events of earlier frames stay emitted.
C17_FailingWrite == []FailedWrite /\ [][FailingStep]_vars
\* a write failed while speaking, after events, on a frame that was
\* followed in that write by a whole frame that was never classified
C17_Witness ==
  /\ failed /\ callbackCalls = 1 /\ buffer = NullBuffer /\ ~closed
  /\ state /\ events # <<>> /\ calls = <<>>
  /\ ByteLength(written) - byteCount >= chunkLength

\* C18: the startTime of an event.  On an event with start it is the time of
\* that event; on an event with end it is the start time of the segment
\* being closed; on an event with state and without start it is the time of
\* the start event of the segment; on an event without state and without
\* end it is 0.
C18_EventStartTime ==
  \A i \in 1..Len(events) :
    LET e == events[i]
        m == LastMark(i)
    IN /\ e.start => e.startTime = e.time
       /\ (e.end \/ (e.state /\ ~e.start))
            => (m # 0 /\ events[m].start /\ e.startTime = events[m].time)
       /\ (~e.state /\ ~e.end) => e.startTime = 0
\* an event outside a segment, then a start after time 0, an event inside
\* the segment and its end
C18_Witness ==
  /\ Len(events) = 4
  /\ ~events[1].state /\ ~events[1].end
  /\ events[2].start /\ events[2].startTime > 0
  /\ events[3].state /\ ~events[3].start
  /\ events[4].end /\ events[4].startTime = events[2].time

\* the number of frames whose handler has run
ProcessedFrames == byteCount \div chunkLength - Len(calls)

\* the states of C19
SpeechState ==
  /\ ~state => startTime = 0
  /\ state => /\ ProcessedFrames >= 1
              /\ startTime <= lastSpeech
              /\ lastSpeech <= Time((ProcessedFrames - 1) * chunkLength)
\* the steps of C19
LastSpeechKept ==
  /\ lastSpeech' >= lastSpeech
  /\ (state /\ ~state') => lastSpeech' = lastSpeech

\* C19: the speech state.  After every processed frame, state false implies
\* startTime 0, and state true implies startTime <= lastSpeech <= the time
\* of the frame processed last; lastSpeech never decreases and is not reset
\* when a segment ends.
C19_SpeechStateInvariant == []SpeechState /\ [][LastSpeechKept]_vars
\* a segment that started after time 0 has ended: startTime is 0 again and
\* lastSpeech is not
C19_Witness ==
  /\ ~state /\ startTime = 0 /\ lastSpeech > 0
  /\ events # <<>> /\ events[Len(events)].end
  /\ events[Len(events)].startTime > 0

\* ------------------------------------------------------- progress
\* the units of input followed to the end of the stream's reactions
MaxLiveUnits == 7

\* stream.write(c) within MaxLiveUnits
WriteLive ==
  /\ Write
  /\ Len(written) + QueuedUnits(writeQueue') <= MaxLiveUnits

NextLive ==
  \/ WriteLive
  \/ LateWrite
  \/ Transform
  \/ ProcessAudio
  \/ ChunkNext
  \/ TransformResolved
  \/ TransformRejected
  \/ Close
  \/ End

\* The classifier returns from every call, the reactions of the promises
\* run, and the stream hands the next queued write to _transform once the
\* previous callback was called.
SpecLive ==
  /\ Init /\ [][NextLive]_vars
  /\ WF_vars(ProcessAudio)
  /\ WF_vars(ChunkNext)
  /\ WF_vars(TransformResolved)
  /\ WF_vars(TransformRejected)
  /\ WF_vars(Transform)

\* the states of C20: the callback of a write is not called before the
\* write completes and at most once
CallbackOnce ==
  /\ callbackCalls <= 1
  /\ tpc # "idle" => callbackCalls = 0
  /\ (tpc = "idle" /\ written # <<>>) => callbackCalls = 1
\* the steps of C20: the offset of the loop grows by chunkLength with every
\* frame and stays within the chunk; the callback is called with success
\* when every frame passed to the classifier has its event, else with the
\* error of an ERROR frame
CompletionStep ==
  /\ Len(calls') > Len(calls)
       => /\ start' = (IF tpc = "idle" THEN 0 ELSE start) + chunkLength
          /\ start' < ByteLength(chunk')
  /\ (callbackCalls' = 1 /\ callbackCalls = 0)
       => /\ calls = <<>>
          /\ failed' <=> errorSeen
          /\ (~failed' /\ ~closed) => Len(events) * chunkLength = byteCount

\* C20: write completion.  When every classifier call returns, every write
\* handed to the stream completes and its callback is called exactly once:
\* with success after an event was emitted for each frame processed, or
\* with the classification error.  The loop over the frames of a write ends
\* because the offset grows by chunkLength at every step.  A write in
\* _transform completes; the first queued write is handed to _transform
\* when the previous one has completed, or dropped with the stream.
C20_WriteCompletion ==
  /\ []CallbackOnce
  /\ [][CompletionStep]_vars
  /\ (tpc # "idle") ~> (tpc = "idle")
  /\ (tpc = "idle" /\ writeQueue # <<>>)
       ~> (tpc # "idle" \/ writeQueue = <<>>)
\* a write of more than one frame completed with success after another one
C20_Witness ==
  /\ WritesCompleted /\ callbackCalls = 1 /\ ~failed /\ ~closed
  /\ Len(events) >= 3 /\ writeKinds = {"aligned", "split"}

\* C9: sequential classification.  At most one vad.processAudio call is
\* outstanding, only while _transform awaits it, and on a stream without
\* ERROR that was not destroyed every frame whose classification has
\* started is either the outstanding one or has its event emitted: a frame
\* is started only after the event of the frame before it.
C9_SequentialClassification ==
  /\ Len(calls) <= 1
  /\ calls # <<>> => tpc = "await"
  /\ (~errorSeen /\ ~closed)
       => Len(events) + Len(calls) = byteCount \div chunkLength

\* a classification is outstanding after an earlier frame's event, while
\* the next write is already queued
C9_Witness ==
  /\ Len(calls) = 1 /\ ~closed
  /\ events # <<>>
  /\ writeQueue # <<>>

\* C10: cancellation.  Once the stream is destroyed, no event is emitted
\* and none of state, startTime, lastSpeech, buffer, byteCount changes.
C10_NoMutationAfterClose ==
  [][closed => /\ events' = events
               /\ UNCHANGED <<state, startTime, lastSpeech, buffer,
                              byteCount>>]_vars

====
